---- MODULE Spec2Model ----
(***************************************************************************)
(* Model of the xinput-device protocol engine (src/src/xinput.rs) and the  *)
(* gamepad frame codec (src/xinput-device/src/controller.rs).              *)
(*                                                                         *)
(* Byte arrays are sequences of 0..255; Rust index i is TLA+ index i+1.    *)
(* An Option / a one-slot cell is a sequence of length 0 or 1.             *)
(* Time is kept relative to the present instant: idle_msg_deadline holds   *)
(* the number of milliseconds left until the deadline (0 = elapsed), or    *)
(* InstantMAX for a deadline that never elapses; Tick moves the present    *)
(* forward by one millisecond.                                             *)
(***************************************************************************)
EXTENDS Integers, Sequences, FiniteSets, TLC

VARIABLES
    controller_info_state, \* XInput.controller_info_state
    idle_msg_deadline,     \* local of XInput::run
    xinput,                \* State.xinput : Signal<ControllerData>, <<>> or <<frame>>
    rumble,                \* State.rumble : AtomicU16
    ep_out,                \* OUT endpoint: <<>> or <<result>> of the transfer the host completed
    pc,                    \* suspension point of XInput::run
    xinput_data,           \* frame taken from the signal by the running iteration
    wbuf,                  \* buffer handed to ep_in.write by the pending write
    iter,                  \* record of the iteration in progress / last completed
    rumble_seen,           \* last pair returned to the producer by State::rumble
    unread,                \* frames published since the last one was taken (the latest MaxUnread)
    burst,                 \* the value of unread when the running iteration took its frame
    since_data,            \* ms since the last pad data write returned, -1 if none since the last idle message
    snapshot,              \* <<>> or <<joy>>: the XboxGamepad last converted by the producer
    builder,               \* embassy_usb::Builder: the functions and endpoints registered so far
    controllers,           \* the XInput values built by new_wireless
    req,                   \* <<>> or <<request>>: the control IN request last offered to the handler
    resp,                  \* <<>> (None) or <<bytes>> (Some(Accepted(bytes))): its answer
    info_writes            \* controller-info writes started since the last [0x08,0x80] write was started

vars == <<controller_info_state, idle_msg_deadline, xinput, rumble, ep_out, pc,
          xinput_data, wbuf, iter, rumble_seen, unread, burst, since_data,
          snapshot, builder, controllers, req, resp, info_writes>>

\* the state of the producer's conversion, of the USB builder and of the control handler
apart == <<snapshot, builder, controllers, req, resp>>

\* the same, with the count of controller-info writes
other == <<apart, info_writes>>

(***************************************************************************)
(* Bit operations on bytes                                                 *)
(***************************************************************************)
RECURSIVE BitAnd(_, _)
BitAnd(a, b) ==
    IF a = 0 \/ b = 0 THEN 0
    ELSE (a % 2) * (b % 2) + 2 * BitAnd(a \div 2, b \div 2)

RECURSIVE BitOr(_, _)
BitOr(a, b) ==
    IF a = 0 THEN b
    ELSE IF b = 0 THEN a
    ELSE (IF a % 2 = 1 \/ b % 2 = 1 THEN 1 ELSE 0) + 2 * BitOr(a \div 2, b \div 2)

Zeros(n) == [i \in 1..n |-> 0]

(***************************************************************************)
(* Gamepad frame codec                                                     *)
(***************************************************************************)
XboxGamepadDefault ==
    [dpad_up |-> FALSE, dpad_down |-> FALSE, dpad_left |-> FALSE, dpad_right |-> FALSE,
     btn_start |-> FALSE, btn_back |-> FALSE,
     btn_left_thumb |-> FALSE, btn_right_thumb |-> FALSE,
     btn_left_shoulder |-> FALSE, btn_right_shoulder |-> FALSE, btn_guide |-> FALSE,
     btn_a |-> FALSE, btn_b |-> FALSE, btn_x |-> FALSE, btn_y |-> FALSE,
     trigger_left |-> 127, trigger_right |-> 127,
     thumb_left_x |-> 0, thumb_left_y |-> 0, thumb_right_x |-> 0, thumb_right_y |-> 0]

map_button(to_bit, button) == IF button THEN (2 ^ to_bit) % 256 ELSE 0

i8_to_le_bytes(v) == <<v % 256>>

\* seeded fault: the two bytes are stored in big-endian order
i16_to_le_bytes_BigEndian(v) == <<(v % 65536) \div 256, (v % 65536) % 256>>

i16_to_le_bytes(v) == <<(v % 65536) % 256, (v % 65536) \div 256>>

ControllerData_from(joy) ==
    LET b0 == BitOr(map_button(0, joy.dpad_up),
               BitOr(map_button(1, joy.dpad_down),
               BitOr(map_button(2, joy.dpad_left),
               BitOr(map_button(3, joy.dpad_right),
               BitOr(map_button(4, joy.btn_start),
               BitOr(map_button(5, joy.btn_back),
               BitOr(map_button(6, joy.btn_left_thumb),
                     map_button(7, joy.btn_right_thumb))))))))
        b1 == BitOr(map_button(0, joy.btn_left_shoulder),
               BitOr(map_button(1, joy.btn_right_shoulder),
               BitOr(map_button(2, joy.btn_guide),
               BitOr(map_button(4, joy.btn_a),
               BitOr(map_button(5, joy.btn_b),
               BitOr(map_button(6, joy.btn_x),
                     map_button(7, joy.btn_y)))))))
    IN  <<b0, b1>> \o i8_to_le_bytes(joy.trigger_left) \o i8_to_le_bytes(joy.trigger_right)
          \o i16_to_le_bytes(joy.thumb_left_x) \o i16_to_le_bytes(joy.thumb_left_y)
          \o i16_to_le_bytes(joy.thumb_right_x) \o i16_to_le_bytes(joy.thumb_right_y)

\* the conversion of src/src/controller.rs: btn_y is mapped to bit 6, btn_x to bit 7
ControllerData_from_root(joy) ==
    LET b0 == BitOr(map_button(0, joy.dpad_up),
               BitOr(map_button(1, joy.dpad_down),
               BitOr(map_button(2, joy.dpad_left),
               BitOr(map_button(3, joy.dpad_right),
               BitOr(map_button(4, joy.btn_start),
               BitOr(map_button(5, joy.btn_back),
               BitOr(map_button(6, joy.btn_left_thumb),
                     map_button(7, joy.btn_right_thumb))))))))
        b1 == BitOr(map_button(0, joy.btn_left_shoulder),
               BitOr(map_button(1, joy.btn_right_shoulder),
               BitOr(map_button(2, joy.btn_guide),
               BitOr(map_button(4, joy.btn_a),
               BitOr(map_button(5, joy.btn_b),
               BitOr(map_button(6, joy.btn_y),
                     map_button(7, joy.btn_x)))))))
    IN  <<b0, b1>> \o i8_to_le_bytes(joy.trigger_left) \o i8_to_le_bytes(joy.trigger_right)
          \o i16_to_le_bytes(joy.thumb_left_x) \o i16_to_le_bytes(joy.thumb_left_y)
          \o i16_to_le_bytes(joy.thumb_right_x) \o i16_to_le_bytes(joy.thumb_right_y)

\* The snapshots the example producer publishes (btn_a toggled each round).
Gamepads == { [XboxGamepadDefault EXCEPT !.btn_a = a] : a \in BOOLEAN }

(***************************************************************************)
(* Out-transfer classifier                                                 *)
(***************************************************************************)
OutData(tag, a, b, data) == [tag |-> tag, a |-> a, b |-> b, data |-> data]

NoOutData == OutData("none", 0, 0, <<>>)

HasPrefix(s, p) == Len(s) >= Len(p) /\ \A i \in 1..Len(p) : s[i] = p[i]

\* seeded fault: payloads longer than 12 bytes are pattern-matched as well
from_raw_MinLen(out_data) ==
    IF Len(out_data) < 12 THEN OutData("Unknown", 0, 0, out_data)
    ELSE IF HasPrefix(out_data, <<8, 0, 15, 192>>) THEN OutData("ConnectionStatus", 0, 0, <<>>)
    ELSE IF HasPrefix(out_data, <<0, 0, 0, 64>>) THEN OutData("Ack", 0, 0, <<>>)
    ELSE IF HasPrefix(out_data, <<0, 0, 8>>) /\ BitAnd(out_data[4], 64) = 64
         THEN OutData("Led", BitAnd(out_data[4], 15), 0, <<>>)
    ELSE IF HasPrefix(out_data, <<0, 1, 15, 192, 0>>)
         THEN OutData("Rumble", out_data[6], out_data[7], <<>>)
    ELSE OutData("Unknown", 0, 0, out_data)

\* seeded fault: the Led arm has lost its guard on the 0x40 marker
from_raw_LedUnguarded(out_data) ==
    IF Len(out_data) # 12 THEN OutData("Unknown", 0, 0, out_data)
    ELSE IF HasPrefix(out_data, <<8, 0, 15, 192>>) THEN OutData("ConnectionStatus", 0, 0, <<>>)
    ELSE IF HasPrefix(out_data, <<0, 0, 0, 64>>) THEN OutData("Ack", 0, 0, <<>>)
    ELSE IF HasPrefix(out_data, <<0, 0, 8>>)
         THEN OutData("Led", BitAnd(out_data[4], 15), 0, <<>>)
    ELSE IF HasPrefix(out_data, <<0, 1, 15, 192, 0>>)
         THEN OutData("Rumble", out_data[6], out_data[7], <<>>)
    ELSE OutData("Unknown", 0, 0, out_data)

from_raw(out_data) ==
    IF Len(out_data) # 12 THEN OutData("Unknown", 0, 0, out_data)
    ELSE IF HasPrefix(out_data, <<8, 0, 15, 192>>) THEN OutData("ConnectionStatus", 0, 0, <<>>)
    ELSE IF HasPrefix(out_data, <<0, 0, 0, 64>>) THEN OutData("Ack", 0, 0, <<>>)
    ELSE IF HasPrefix(out_data, <<0, 0, 8>>) /\ BitAnd(out_data[4], 64) = 64
         THEN OutData("Led", BitAnd(out_data[4], 15), 0, <<>>)
    ELSE IF HasPrefix(out_data, <<0, 1, 15, 192, 0>>)
         THEN OutData("Rumble", out_data[6], out_data[7], <<>>)
    ELSE OutData("Unknown", 0, 0, out_data)

(***************************************************************************)
(* Shared state (struct State)                                             *)
(***************************************************************************)
\* seeded fault: the two bytes are combined in big-endian order
u16_from_le_bytes_Swapped(lo, hi) == hi + 256 * lo

u16_from_le_bytes(lo, hi) == lo + 256 * hi

u16_to_le_bytes(v) == <<v % 256, v \div 256>>

\* State::rumble: the (strong, weak) pair
State_rumble(r) == u16_to_le_bytes(r)

(***************************************************************************)
(* Constants of the protocol engine                                        *)
(***************************************************************************)
InstantMAX == 2147483647          \* Instant::MAX: a deadline that never elapses

IdleMs == 11                      \* Duration::from_millis(11)

MaxInfoWrites == 2                \* how far controller-info writes are counted
MaxUnread == 2                    \* how many unread frames the record keeps

ControllerInfoStates == {"Disconnected", "None", "Unknown1", "Unknown2"}

StatusConnected == <<8, 128>>     \* [0x08, 0x80]

StatusDisconnected == <<8, 8>>    \* [0x08, 0x08]

controller_info ==
    <<0, 15, 0, 240, 240, 204, 255, 255, 255, 255,
      88, 145, 179, 240, 0, 9, 19, 163,
      32, 29, 48, 3, 64, 1, 80, 1, 255, 255, 255>>

\* the 29-byte message carrying a controller frame at bytes 6..17
\* seeded fault: the frame is copied one byte too early
PadDataMsg_Offset(frame) == <<0, 1, 0, 240, 0>> \o frame \o Zeros(12)

PadDataMsg(frame) == <<0, 1, 0, 240, 0, 19>> \o frame \o Zeros(11)

\* the 29-byte idle message
IdleMsg == [i \in 1..29 |-> IF i = 4 THEN 240 ELSE 0]

(***************************************************************************)
(* Payloads the host sends on the OUT endpoint                             *)
(***************************************************************************)
Pad12(prefix) == prefix \o Zeros(12 - Len(prefix))

HostPayloads ==
    { Pad12(<<8, 0, 15, 192>>),                  \* connection status query
      Pad12(<<0, 0, 0, 64>>),                    \* ack
      Pad12(<<0, 0, 8, 70>>),                    \* led 6
      Pad12(<<0, 0, 8, 6>>),                     \* led byte without the 0x40 marker
      Pad12(<<0, 1, 15, 192, 0, 127, 16>>),      \* rumble strong=0x7F weak=0x10
      Pad12(<<0, 1, 15, 192, 0, 16, 255>>),      \* rumble strong=0x10 weak=0xFF
      <<0, 0, 0, 64>>,                           \* ack prefix, 4 bytes only
      Pad12(<<8, 0, 15, 192>>) \o <<0>> }        \* status query prefix, 13 bytes

\* a builder nothing has been registered with
NoBuilder == [functions |-> <<>>, next_in |-> 1, next_out |-> 1]

OutOk(data) == [ok |-> TRUE, data |-> data]

OutErr == [ok |-> FALSE, data |-> <<>>]

(***************************************************************************)
(* Record of one iteration of the loop of XInput::run                      *)
(***************************************************************************)
IterStart(ev, raw, cmd) ==
    [ev |-> ev, raw |-> raw, cmd |-> cmd,
     pre_state |-> controller_info_state, pre_rumble |-> rumble, writes |-> <<>>]

Written(ok) == [iter EXCEPT !.writes = Append(@, [data |-> wbuf, ok |-> ok])]

(***************************************************************************)
(* Initial state: State::new and XInput::new_wireless, run just entered    *)
(***************************************************************************)
Init ==
    /\ controller_info_state = "Disconnected"
    /\ idle_msg_deadline = InstantMAX
    /\ xinput = <<>>
    /\ rumble = 0
    /\ ep_out = <<>>
    /\ pc = "select"
    /\ xinput_data = <<>>
    /\ wbuf = <<>>
    /\ iter = [ev |-> "none", raw |-> <<>>, cmd |-> NoOutData,
               pre_state |-> "Disconnected", pre_rumble |-> 0, writes |-> <<>>]
    /\ rumble_seen = <<0, 0>>
    /\ unread = <<>>
    /\ burst = <<>>
    /\ since_data = -1
    /\ snapshot = <<>>
    /\ builder = NoBuilder
    /\ controllers = <<>>
    /\ req = <<>>
    /\ resp = <<>>
    /\ info_writes = 0

(***************************************************************************)
(* Producer, host and clock                                                *)
(***************************************************************************)
\* State::send_xinput: Signal::signal replaces whatever the slot holds
\* seeded fault: a frame that is still unread is kept and the new one dropped
send_xinput_KeepUnread(data) == xinput' = IF xinput = <<>> THEN <<data>> ELSE xinput

\* seeded fault: the producer has to wait until the previous frame has been taken
send_xinput_Blocking(data) == xinput = <<>> /\ xinput' = <<data>>

send_xinput(data) == xinput' = <<data>>

\* MaxUnread bounds the record of unread frames, not the producer
Logged(data) ==
    IF Len(unread) < MaxUnread THEN Append(unread, data) ELSE Append(Tail(unread), data)

\* the example producer: a snapshot is converted and published
Publish ==
    /\ \E j \in Gamepads : send_xinput(ControllerData_from(j))
    /\ UNCHANGED <<controller_info_state, idle_msg_deadline, rumble, ep_out, pc,
                   xinput_data, wbuf, iter, rumble_seen, unread, burst, since_data, other>>

\* the same producer, with the published frame added to the record of unread frames
PublishLogged ==
    /\ \E j \in Gamepads :
          /\ send_xinput(ControllerData_from(j))
          /\ unread' = Logged(ControllerData_from(j))
    /\ UNCHANGED <<controller_info_state, idle_msg_deadline, rumble, ep_out, pc,
                   xinput_data, wbuf, iter, rumble_seen, burst, since_data, other>>

\* the producer calls State::rumble
ReadRumble ==
    /\ rumble_seen' = State_rumble(rumble)
    /\ UNCHANGED <<controller_info_state, idle_msg_deadline, xinput, rumble, ep_out, pc,
                   xinput_data, wbuf, iter>>
    /\ UNCHANGED <<unread, burst, since_data, other>>

\* the host completes an OUT transfer; the endpoint holds it until it is read
HostOut ==
    /\ ep_out = <<>>
    /\ \E p \in HostPayloads : ep_out' = <<OutOk(p)>>
    /\ UNCHANGED <<controller_info_state, idle_msg_deadline, xinput, rumble, pc,
                   xinput_data, wbuf, iter, rumble_seen>>
    /\ UNCHANGED <<unread, burst, since_data, other>>

\* the host of the handshake only: status queries and acks
HostHandshake ==
    /\ ep_out = <<>>
    /\ \E p \in { Pad12(<<8, 0, 15, 192>>), Pad12(<<0, 0, 0, 64>>) } : ep_out' = <<OutOk(p)>>
    /\ UNCHANGED <<controller_info_state, idle_msg_deadline, xinput, rumble, pc,
                   xinput_data, wbuf, iter, rumble_seen>>
    /\ UNCHANGED <<unread, burst, since_data, other>>

\* the pending read of the OUT endpoint fails (endpoint disabled)
HostOutErr ==
    /\ ep_out = <<>>
    /\ ep_out' = <<OutErr>>
    /\ UNCHANGED <<controller_info_state, idle_msg_deadline, xinput, rumble, pc,
                   xinput_data, wbuf, iter, rumble_seen>>
    /\ UNCHANGED <<unread, burst, since_data, other>>

Elapse(d) == IF d = InstantMAX \/ d = 0 THEN d ELSE d - 1

\* the time since the last pad data write, counted up to IdleMs
Since(t) == IF t < 0 \/ t >= IdleMs THEN t ELSE t + 1

\* one millisecond passes while the engine is not in its 1 ms pause
Tick ==
    /\ pc # "pause"
    /\ idle_msg_deadline \notin {InstantMAX, 0}
    /\ idle_msg_deadline' = Elapse(idle_msg_deadline)
    /\ UNCHANGED <<controller_info_state, xinput, rumble, ep_out, pc,
                   xinput_data, wbuf, iter, rumble_seen>>
    /\ since_data' = Since(since_data)
    /\ UNCHANGED <<unread, burst, other>>

(***************************************************************************)
(* XInput::run, one action per stretch between two suspension points       *)
(***************************************************************************)
\* the count of controller-info writes follows the write the step starts:
\* [0x08,0x80] starts the count again, a controller-info packet adds one
CountInfoWrites ==
    info_writes' =
        CASE pc' \in {"status_write", "reply_write"} /\ wbuf' = StatusConnected -> 0
          [] pc' = "reply_write" /\ wbuf' = controller_info ->
                (IF info_writes < MaxInfoWrites THEN info_writes + 1 ELSE info_writes)
          [] OTHER -> info_writes

\* what select3 finds ready, polled in the order of its arguments
FrameReady == xinput # <<>>

DeadlineReady == idle_msg_deadline = 0

OutReady == ep_out # <<>>

\* seeded fault: the disconnected branch announces "connected" as well
send_connection_status_SameStatus(available) ==
    IF available
    THEN /\ controller_info_state' = "Unknown1"
         /\ wbuf' = StatusConnected
    ELSE /\ controller_info_state' = "Disconnected"
         /\ wbuf' = StatusConnected

\* send_connection_status up to its write
send_connection_status(available) ==
    IF available
    THEN /\ controller_info_state' = "Unknown1"
         /\ wbuf' = StatusConnected
    ELSE /\ controller_info_state' = "Disconnected"
         /\ wbuf' = StatusDisconnected

\* seeded fault: wait() returns the frame but leaves it in the signal
SelectFirst_KeepFrame ==
    /\ pc = "select"
    /\ FrameReady
    /\ xinput_data' = xinput[1]
    /\ iter' = IterStart("frame", <<>>, NoOutData)
    /\ IF controller_info_state = "Disconnected"
       THEN /\ send_connection_status(TRUE)
            /\ pc' = "status_write"
       ELSE /\ wbuf' = PadDataMsg(xinput[1])
            /\ pc' = "data_write"
            /\ UNCHANGED controller_info_state
    /\ UNCHANGED <<idle_msg_deadline, xinput, rumble, ep_out, rumble_seen>>
    /\ burst' = unread
    /\ UNCHANGED <<unread, since_data, apart>>
    /\ CountInfoWrites

\* seeded fault: during the handshake a frame is taken but not sent
SelectFirst_GatedOnPaired ==
    /\ pc = "select"
    /\ FrameReady
    /\ xinput' = <<>>
    /\ iter' = IterStart("frame", <<>>, NoOutData)
    /\ CASE controller_info_state = "Disconnected" ->
              /\ send_connection_status(TRUE)
              /\ xinput_data' = xinput[1]
              /\ pc' = "status_write"
         [] controller_info_state = "None" ->
              /\ wbuf' = PadDataMsg(xinput[1])
              /\ xinput_data' = xinput[1]
              /\ pc' = "data_write"
              /\ UNCHANGED controller_info_state
         [] OTHER ->
              /\ pc' = "select"
              /\ UNCHANGED <<controller_info_state, wbuf, xinput_data>>
    /\ UNCHANGED <<idle_msg_deadline, rumble, ep_out, rumble_seen>>
    /\ burst' = unread
    /\ unread' = <<>>
    /\ UNCHANGED <<since_data, apart>>
    /\ CountInfoWrites

\* Either3::First: a frame is taken from the signal
SelectFirst ==
    /\ pc = "select"
    /\ FrameReady
    /\ xinput_data' = xinput[1]
    /\ xinput' = <<>>
    /\ iter' = IterStart("frame", <<>>, NoOutData)
    /\ IF controller_info_state = "Disconnected"
       THEN /\ send_connection_status(TRUE)
            /\ pc' = "status_write"
       ELSE /\ wbuf' = PadDataMsg(xinput[1])
            /\ pc' = "data_write"
            /\ UNCHANGED controller_info_state
    /\ UNCHANGED <<idle_msg_deadline, rumble, ep_out, rumble_seen>>
    /\ burst' = unread
    /\ unread' = <<>>
    /\ UNCHANGED <<since_data, apart>>
    /\ CountInfoWrites

\* seeded fault: the idle deadline is armed before the pad data is written
StatusWriteDone_ArmEarly ==
    /\ pc = "status_write"
    /\ \E ok \in BOOLEAN : iter' = Written(ok)
    /\ wbuf' = PadDataMsg(xinput_data)
    /\ idle_msg_deadline' = IdleMs
    /\ pc' = "data_write"
    /\ UNCHANGED <<controller_info_state, xinput, rumble, ep_out,
                   xinput_data, rumble_seen>>
    /\ UNCHANGED <<unread, burst, since_data, other>>

\* seeded fault: the result of the write is unwrapped, a failure stops the task
StatusWriteDone_Unwrap ==
    /\ pc = "status_write"
    /\ \E ok \in BOOLEAN :
         /\ iter' = Written(ok)
         /\ pc' = (IF ok THEN "data_write" ELSE "panicked")
    /\ wbuf' = PadDataMsg(xinput_data)
    /\ UNCHANGED <<controller_info_state, idle_msg_deadline, xinput, rumble, ep_out,
                   xinput_data, rumble_seen>>
    /\ UNCHANGED <<unread, burst, since_data, other>>

\* the write of the connected status returns; the pad data message is built and written
StatusWriteDone ==
    /\ pc = "status_write"
    /\ \E ok \in BOOLEAN : iter' = Written(ok)
    /\ wbuf' = PadDataMsg(xinput_data)
    /\ pc' = "data_write"
    /\ UNCHANGED <<controller_info_state, idle_msg_deadline, xinput, rumble, ep_out,
                   xinput_data, rumble_seen>>
    /\ UNCHANGED <<unread, burst, since_data, other>>

\* seeded fault: the idle deadline is armed only when the write succeeded
DataWriteDone_ArmOnSuccess ==
    /\ pc = "data_write"
    /\ \E ok \in BOOLEAN :
         /\ iter' = Written(ok)
         /\ idle_msg_deadline' = (IF ok THEN IdleMs ELSE idle_msg_deadline)
    /\ wbuf' = <<>>
    /\ xinput_data' = <<>>
    /\ pc' = "select"
    /\ UNCHANGED <<controller_info_state, xinput, rumble, ep_out, rumble_seen>>
    /\ since_data' = 0
    /\ UNCHANGED <<unread, burst, other>>

\* the write of the pad data returns; the idle deadline is armed
DataWriteDone ==
    /\ pc = "data_write"
    /\ \E ok \in BOOLEAN : iter' = Written(ok)
    /\ idle_msg_deadline' = IdleMs
    /\ wbuf' = <<>>
    /\ xinput_data' = <<>>
    /\ pc' = "select"
    /\ UNCHANGED <<controller_info_state, xinput, rumble, ep_out, rumble_seen>>
    /\ since_data' = 0
    /\ UNCHANGED <<unread, burst, other>>

\* Either3::Second: the idle deadline has elapsed
SelectSecond ==
    /\ pc = "select"
    /\ ~FrameReady
    /\ DeadlineReady
    /\ iter' = IterStart("idle", <<>>, NoOutData)
    /\ wbuf' = IdleMsg
    /\ pc' = "idle_write"
    /\ UNCHANGED <<controller_info_state, idle_msg_deadline, xinput, rumble, ep_out,
                   xinput_data, rumble_seen>>
    /\ UNCHANGED <<unread, burst, since_data, other>>

\* seeded fault: the deadline is cleared only when the idle message was written
IdleWriteDone_ClearOnSuccess ==
    /\ pc = "idle_write"
    /\ \E ok \in BOOLEAN :
         /\ iter' = Written(ok)
         /\ idle_msg_deadline' = (IF ok THEN InstantMAX ELSE idle_msg_deadline)
         /\ since_data' = (IF ok THEN -1 ELSE since_data)
    /\ wbuf' = <<>>
    /\ pc' = "select"
    /\ UNCHANGED <<controller_info_state, xinput, rumble, ep_out, xinput_data, rumble_seen>>
    /\ UNCHANGED <<unread, burst, other>>

\* seeded fault: the deadline stays elapsed after the idle message
IdleWriteDone_NoDisarm ==
    /\ pc = "idle_write"
    /\ \E ok \in BOOLEAN : iter' = Written(ok)
    /\ wbuf' = <<>>
    /\ pc' = "select"
    /\ UNCHANGED <<controller_info_state, idle_msg_deadline, xinput, rumble, ep_out,
                   xinput_data, rumble_seen>>
    /\ since_data' = -1
    /\ UNCHANGED <<unread, burst, other>>

\* the write of the idle message returns; the deadline is disarmed
IdleWriteDone ==
    /\ pc = "idle_write"
    /\ \E ok \in BOOLEAN : iter' = Written(ok)
    /\ idle_msg_deadline' = InstantMAX
    /\ wbuf' = <<>>
    /\ pc' = "select"
    /\ UNCHANGED <<controller_info_state, xinput, rumble, ep_out, xinput_data, rumble_seen>>
    /\ since_data' = -1
    /\ UNCHANGED <<unread, burst, other>>

\* seeded fault: only a paired controller is reported as connected
OnConnectionStatus_OnlyPaired ==
    /\ send_connection_status(controller_info_state = "None")
    /\ pc' = "reply_write"
    /\ UNCHANGED rumble

\* handle_out_data, OutData::ConnectionStatus
OnConnectionStatus ==
    /\ send_connection_status(controller_info_state # "Disconnected")
    /\ pc' = "reply_write"
    /\ UNCHANGED rumble

\* seeded fault: a Led command is answered with a status message
OnLed_Reply ==
    /\ wbuf' = StatusConnected
    /\ pc' = "reply_write"
    /\ UNCHANGED <<controller_info_state, rumble>>

\* handle_out_data, OutData::Led: logged only
OnLed ==
    /\ pc' = "select"
    /\ UNCHANGED <<controller_info_state, rumble, wbuf>>

\* seeded fault: the controller-info packet is sent on the second Ack
OnAck_InfoOnSecond ==
    CASE controller_info_state \in {"Disconnected", "None"} ->
            /\ pc' = "select"
            /\ UNCHANGED <<controller_info_state, rumble, wbuf>>
      [] controller_info_state = "Unknown1" ->
            /\ controller_info_state' = "Unknown2"
            /\ pc' = "select"
            /\ UNCHANGED <<rumble, wbuf>>
      [] controller_info_state = "Unknown2" ->
            /\ controller_info_state' = "None"
            /\ wbuf' = controller_info
            /\ pc' = "reply_write"
            /\ UNCHANGED rumble

\* seeded fault: an Ack received when paired drops the connection
OnAck_DropWhenPaired ==
    CASE controller_info_state = "Disconnected" ->
            /\ pc' = "select"
            /\ UNCHANGED <<controller_info_state, rumble, wbuf>>
      [] controller_info_state = "None" ->
            /\ controller_info_state' = "Disconnected"
            /\ pc' = "select"
            /\ UNCHANGED <<rumble, wbuf>>
      [] controller_info_state = "Unknown1" ->
            /\ controller_info_state' = "Unknown2"
            /\ wbuf' = controller_info
            /\ pc' = "reply_write"
            /\ UNCHANGED rumble
      [] controller_info_state = "Unknown2" ->
            /\ controller_info_state' = "None"
            /\ pc' = "select"
            /\ UNCHANGED <<rumble, wbuf>>

\* seeded fault: the first Ack advances the state but the controller-info packet is not sent
OnAck_NoInfo ==
    CASE controller_info_state \in {"Disconnected", "None"} ->
            /\ pc' = "select"
            /\ UNCHANGED <<controller_info_state, rumble, wbuf>>
      [] controller_info_state = "Unknown1" ->
            /\ controller_info_state' = "Unknown2"
            /\ pc' = "select"
            /\ UNCHANGED <<rumble, wbuf>>
      [] controller_info_state = "Unknown2" ->
            /\ controller_info_state' = "None"
            /\ pc' = "select"
            /\ UNCHANGED <<rumble, wbuf>>

\* seeded fault: an Ack received when paired sends the controller-info packet again
OnAck_InfoWhenPaired ==
    CASE controller_info_state = "Disconnected" ->
            /\ pc' = "select"
            /\ UNCHANGED <<controller_info_state, rumble, wbuf>>
      [] controller_info_state \in {"Unknown1", "None"} ->
            /\ controller_info_state' = "Unknown2"
            /\ wbuf' = controller_info
            /\ pc' = "reply_write"
            /\ UNCHANGED rumble
      [] controller_info_state = "Unknown2" ->
            /\ controller_info_state' = "None"
            /\ pc' = "select"
            /\ UNCHANGED <<rumble, wbuf>>

\* handle_out_data, OutData::Ack
OnAck ==
    CASE controller_info_state \in {"Disconnected", "None"} ->
            /\ pc' = "select"
            /\ UNCHANGED <<controller_info_state, rumble, wbuf>>
      [] controller_info_state = "Unknown1" ->
            /\ controller_info_state' = "Unknown2"
            /\ wbuf' = controller_info
            /\ pc' = "reply_write"
            /\ UNCHANGED rumble
      [] controller_info_state = "Unknown2" ->
            /\ controller_info_state' = "None"
            /\ pc' = "select"
            /\ UNCHANGED <<rumble, wbuf>>

\* handle_out_data, OutData::Rumble
OnRumble(strong, weak) ==
    /\ rumble' = u16_from_le_bytes(strong, weak)
    /\ pc' = "select"
    /\ UNCHANGED <<controller_info_state, wbuf>>

\* seeded fault: an unrecognised command drops the connection
OnUnknown_Reset ==
    /\ controller_info_state' = "Disconnected"
    /\ pc' = "select"
    /\ UNCHANGED <<rumble, wbuf>>

\* handle_out_data, OutData::Unknown: logged only
OnUnknown ==
    /\ pc' = "select"
    /\ UNCHANGED <<controller_info_state, rumble, wbuf>>

\* XInput::handle_out_data up to its write, if it makes one
handle_out_data(out_data) ==
    CASE out_data.tag = "ConnectionStatus" -> OnConnectionStatus
      [] out_data.tag = "Led" -> OnLed
      [] out_data.tag = "Ack" -> OnAck
      [] out_data.tag = "Rumble" -> OnRumble(out_data.a, out_data.b)
      [] out_data.tag = "Unknown" -> OnUnknown

\* seeded fault: a completed OUT transfer is handled before a pending frame
SelectThirdOk_BeforeFrame ==
    /\ pc = "select"
    /\ OutReady
    /\ ep_out[1].ok
    /\ ep_out' = <<>>
    /\ iter' = IterStart("out", ep_out[1].data, from_raw(ep_out[1].data))
    /\ handle_out_data(from_raw(ep_out[1].data))
    /\ UNCHANGED <<idle_msg_deadline, xinput, xinput_data, rumble_seen>>
    /\ UNCHANGED <<unread, burst, since_data, apart>>
    /\ CountInfoWrites

\* Either3::Third(Ok(n)): an OUT transfer is read, classified and handled
SelectThirdOk ==
    /\ pc = "select"
    /\ ~FrameReady
    /\ ~DeadlineReady
    /\ OutReady
    /\ ep_out[1].ok
    /\ ep_out' = <<>>
    /\ iter' = IterStart("out", ep_out[1].data, from_raw(ep_out[1].data))
    /\ handle_out_data(from_raw(ep_out[1].data))
    /\ UNCHANGED <<idle_msg_deadline, xinput, xinput_data, rumble_seen>>
    /\ UNCHANGED <<unread, burst, since_data, apart>>
    /\ CountInfoWrites

\* seeded fault: a reply to the host postpones the keep-alive
ReplyWriteDone_Rearm ==
    /\ pc = "reply_write"
    /\ \E ok \in BOOLEAN : iter' = Written(ok)
    /\ wbuf' = <<>>
    /\ pc' = "select"
    /\ idle_msg_deadline' = (IF idle_msg_deadline = InstantMAX THEN InstantMAX ELSE IdleMs)
    /\ UNCHANGED <<controller_info_state, xinput, rumble, ep_out,
                   xinput_data, rumble_seen>>
    /\ UNCHANGED <<unread, burst, since_data, other>>

\* the write made by handle_out_data returns
ReplyWriteDone ==
    /\ pc = "reply_write"
    /\ \E ok \in BOOLEAN : iter' = Written(ok)
    /\ wbuf' = <<>>
    /\ pc' = "select"
    /\ UNCHANGED <<controller_info_state, idle_msg_deadline, xinput, rumble, ep_out,
                   xinput_data, rumble_seen>>
    /\ UNCHANGED <<unread, burst, since_data, other>>

\* seeded fault: a failed read is taken for a disconnect
SelectThirdErr_Disconnect ==
    /\ pc = "select"
    /\ ~FrameReady
    /\ ~DeadlineReady
    /\ OutReady
    /\ ~ep_out[1].ok
    /\ ep_out' = <<>>
    /\ iter' = IterStart("readerr", <<>>, NoOutData)
    /\ controller_info_state' = "Disconnected"
    /\ pc' = "pause"
    /\ UNCHANGED <<idle_msg_deadline, xinput, rumble, xinput_data, wbuf, rumble_seen>>
    /\ UNCHANGED <<unread, burst, since_data, other>>

\* Either3::Third(Err(e)): the read failed; the engine starts its 1 ms pause
SelectThirdErr ==
    /\ pc = "select"
    /\ ~FrameReady
    /\ ~DeadlineReady
    /\ OutReady
    /\ ~ep_out[1].ok
    /\ ep_out' = <<>>
    /\ iter' = IterStart("readerr", <<>>, NoOutData)
    /\ pc' = "pause"
    /\ UNCHANGED <<controller_info_state, idle_msg_deadline, xinput, rumble,
                   xinput_data, wbuf, rumble_seen>>
    /\ UNCHANGED <<unread, burst, since_data, other>>

\* seeded fault: the pause forgets the idle deadline
PauseDone_Disarm ==
    /\ pc = "pause"
    /\ idle_msg_deadline' = InstantMAX
    /\ pc' = "select"
    /\ UNCHANGED <<controller_info_state, xinput, rumble, ep_out,
                   xinput_data, wbuf, iter, rumble_seen>>
    /\ since_data' = Since(since_data)
    /\ UNCHANGED <<unread, burst, other>>

\* Timer::after_millis(1) elapses and the loop continues
PauseDone ==
    /\ pc = "pause"
    /\ idle_msg_deadline' = Elapse(idle_msg_deadline)
    /\ pc' = "select"
    /\ UNCHANGED <<controller_info_state, xinput, rumble, ep_out,
                   xinput_data, wbuf, iter, rumble_seen>>
    /\ since_data' = Since(since_data)
    /\ UNCHANGED <<unread, burst, other>>

Next ==
    \/ Publish
    \/ ReadRumble
    \/ HostOut
    \/ HostOutErr
    \/ Tick
    \/ SelectFirst
    \/ StatusWriteDone
    \/ DataWriteDone
    \/ SelectSecond
    \/ IdleWriteDone
    \/ SelectThirdOk
    \/ ReplyWriteDone
    \/ SelectThirdErr
    \/ PauseDone

Spec == Init /\ [][Next]_vars

\* the transport answers every write and the 1 ms timer expires
SpecLive ==
    /\ Spec
    /\ WF_vars(StatusWriteDone)
    /\ WF_vars(DataWriteDone)
    /\ WF_vars(IdleWriteDone)
    /\ WF_vars(ReplyWriteDone)
    /\ WF_vars(PauseDone)

(***************************************************************************)
(* The classifier on its own: the engine reads and handles one transfer    *)
(* drawn from a wide set of payloads                                       *)
(***************************************************************************)
Resize(s, n) == [i \in 1..n |-> IF i <= Len(s) THEN s[i] ELSE 0]

OtherLens == {0, 1, 3, 4, 7, 11, 13, 32}

ClassifyInputs ==
    { <<b0, b1, b2, b3, b4, b5, b6, f, f, f, f, f>> :
        b0 \in {0, 8}, b1 \in {0, 1}, b2 \in {0, 8, 15}, b3 \in {0, 64, 192, 79},
        b4 \in {0, 1}, b5 \in {127, 16}, b6 \in {16, 255}, f \in {0, 255} }
    \cup { <<0, 0, 8, led, 0, 0, 0, 0, 0, 0, 0, 0>> : led \in 0..255 }
    \cup { Resize(p, n) :
             p \in { <<8, 0, 15, 192>>, <<0, 0, 0, 64>>, <<0, 0, 8, 70>>,
                     <<0, 1, 15, 192, 0, 127, 16>>, <<1, 2, 3, 4>> },
             n \in OtherLens }

InitClassify ==
    /\ controller_info_state = "Disconnected"
    /\ idle_msg_deadline = InstantMAX
    /\ xinput = <<>>
    /\ rumble = 0
    /\ ep_out \in { <<OutOk(p)>> : p \in ClassifyInputs }
    /\ pc = "select"
    /\ xinput_data = <<>>
    /\ wbuf = <<>>
    /\ iter = [ev |-> "none", raw |-> <<>>, cmd |-> NoOutData,
               pre_state |-> "Disconnected", pre_rumble |-> 0, writes |-> <<>>]
    /\ rumble_seen = <<0, 0>>
    /\ unread = <<>>
    /\ burst = <<>>
    /\ since_data = -1
    /\ snapshot = <<>>
    /\ builder = NoBuilder
    /\ controllers = <<>>
    /\ req = <<>>
    /\ resp = <<>>
    /\ info_writes = 0

NextClassify ==
    \/ SelectThirdOk
    \/ ReplyWriteDone

SpecClassify == InitClassify /\ [][NextClassify]_vars

(***************************************************************************)
(* The codec on its own: a snapshot drawn from a wide set is converted and *)
(* published, by either of the two conversions of the repository           *)
(***************************************************************************)
ButtonNames ==
    {"dpad_up", "dpad_down", "dpad_left", "dpad_right", "btn_start", "btn_back",
     "btn_left_thumb", "btn_right_thumb", "btn_left_shoulder", "btn_right_shoulder",
     "btn_guide", "btn_a", "btn_b", "btn_x", "btn_y"}

Pressed(S) ==
    [f \in DOMAIN XboxGamepadDefault |-> IF f \in ButtonNames THEN f \in S
                                         ELSE XboxGamepadDefault[f]]

TriggerValues == {-128, -1, 0, 127}

ThumbValues == {-32768, -1, 256, 32767}

EncodeGamepads ==
    { Pressed({a, b}) : a \in ButtonNames, b \in ButtonNames }
    \cup { Pressed({}), Pressed(ButtonNames) }
    \cup { [XboxGamepadDefault EXCEPT !.trigger_left = tl, !.trigger_right = tr,
                                      !.thumb_left_x = lx, !.thumb_left_y = ly,
                                      !.thumb_right_x = rx, !.thumb_right_y = ry] :
             tl \in TriggerValues, tr \in TriggerValues,
             lx \in ThumbValues, ly \in ThumbValues, rx \in ThumbValues, ry \in ThumbValues }

InitEncode ==
    /\ controller_info_state = "Disconnected"
    /\ idle_msg_deadline = InstantMAX
    /\ xinput = <<>>
    /\ rumble = 0
    /\ ep_out = <<>>
    /\ pc = "select"
    /\ xinput_data = <<>>
    /\ wbuf = <<>>
    /\ iter = [ev |-> "none", raw |-> <<>>, cmd |-> NoOutData,
               pre_state |-> "Disconnected", pre_rumble |-> 0, writes |-> <<>>]
    /\ rumble_seen = <<0, 0>>
    /\ unread = <<>>
    /\ burst = <<>>
    /\ since_data = -1
    /\ snapshot \in { <<j>> : j \in EncodeGamepads }
    /\ builder = NoBuilder
    /\ controllers = <<>>
    /\ req = <<>>
    /\ resp = <<>>
    /\ info_writes = 0

\* the snapshot is converted by xinput-device/src/controller.rs and published
ConvertLib ==
    /\ xinput = <<>>
    /\ send_xinput(ControllerData_from(snapshot[1]))
    /\ UNCHANGED <<controller_info_state, idle_msg_deadline, rumble, ep_out, pc,
                   xinput_data, wbuf, iter, rumble_seen, unread, burst, since_data, other>>

\* the snapshot is converted by src/src/controller.rs and published
ConvertRoot ==
    /\ xinput = <<>>
    /\ send_xinput(ControllerData_from_root(snapshot[1]))
    /\ UNCHANGED <<controller_info_state, idle_msg_deadline, rumble, ep_out, pc,
                   xinput_data, wbuf, iter, rumble_seen, unread, burst, since_data, other>>

NextEncode ==
    \/ ConvertLib
    \/ ConvertRoot

SpecEncode == InitEncode /\ [][NextEncode]_vars

(***************************************************************************)
(* The shared channel: the engine with a producer whose publications are   *)
(* recorded, and a host that only does the handshake                       *)
(***************************************************************************)
NextChannel ==
    \/ PublishLogged
    \/ HostHandshake
    \/ HostOutErr
    \/ Tick
    \/ SelectFirst
    \/ StatusWriteDone
    \/ DataWriteDone
    \/ SelectSecond
    \/ IdleWriteDone
    \/ SelectThirdOk
    \/ ReplyWriteDone
    \/ SelectThirdErr
    \/ PauseDone

SpecChannel == Init /\ [][NextChannel]_vars

(***************************************************************************)
(* XInput::new_wireless on its own: devices are built one after another on *)
(* one descriptor builder, each with or without the headset function       *)
(***************************************************************************)
MaxControllers == 6               \* how many devices are built on the builder

\* alt.endpoint_interrupt_in / _out: the next free endpoint of the direction
Endpoint(dir, addr, max_packet_size, interval_ms) ==
    [dir |-> dir, addr |-> addr, max_packet_size |-> max_packet_size,
     interval_ms |-> interval_ms]

\* builder.function, its interface, alternate setting, endpoints and descriptor
Function(protocol, in_ep, out_ep, descriptor) ==
    [class |-> 255, subclass |-> 93, protocol |-> protocol,
     ep_in |-> in_ep, ep_out |-> out_ep, descriptor |-> descriptor]

PrimaryDescriptor(ep_in_idx, ep_out_idx) ==
    <<0, 1, 19, BitOr(128, ep_in_idx), 29, 0, 23, 1, 2, 8,
      19, ep_out_idx, 12, 0, 12, 1, 2, 8>>

HeadsetDescriptor(ep_in_idx, ep_out_idx) ==
    <<0, 1, 1, BitOr(128, ep_in_idx), 0, 64, 1, ep_out_idx, 32, 0>>

\* the builder after the primary function
WithPrimary(b) ==
    LET in_ep == Endpoint("in", b.next_in, 32, 1)
        out_ep == Endpoint("out", b.next_out, 32, 8)
    IN  [functions |-> Append(b.functions,
                          Function(129, in_ep, out_ep,
                                   PrimaryDescriptor(BitOr(128, in_ep.addr), out_ep.addr))),
         next_in |-> b.next_in + 1,
         next_out |-> b.next_out + 1]

\* the builder after the block "if headset { ... }"
WithHeadset(b) ==
    LET in_ep == Endpoint("in", b.next_in, 32, 2)
        out_ep == Endpoint("out", b.next_out, 32, 4)
    IN  [functions |-> Append(b.functions,
                          Function(130, in_ep, out_ep,
                                   HeadsetDescriptor(BitOr(128, in_ep.addr), out_ep.addr))),
         next_in |-> b.next_in + 1,
         next_out |-> b.next_out + 1]

\* the value new_wireless returns, with the arguments it was called with
Device(in_ep, out_ep, headset, function) ==
    [ep_in |-> in_ep, ep_out |-> out_ep, controller_info_state |-> "Disconnected",
     headset |-> headset, function |-> function]

\* seeded fault: the endpoints of the headset block replace the outer ones
new_wireless_RetainLast(headset) ==
    /\ Len(controllers) < MaxControllers
    /\ LET b1 == WithPrimary(builder)
           b2 == IF headset THEN WithHeadset(b1) ELSE b1
           last == b2.functions[Len(b2.functions)]
       IN  /\ builder' = b2
           /\ controllers' = Append(controllers,
                                Device(last.ep_in, last.ep_out, headset, Len(b1.functions)))
    /\ UNCHANGED <<controller_info_state, idle_msg_deadline, xinput, rumble, ep_out, pc,
                   xinput_data, wbuf, iter, rumble_seen, unread, burst, since_data,
                   snapshot, req, resp, info_writes>>

\* XInput::new_wireless(builder, state, headset)
new_wireless(headset) ==
    /\ Len(controllers) < MaxControllers
    /\ LET b1 == WithPrimary(builder)
           primary == b1.functions[Len(b1.functions)]
           b2 == IF headset THEN WithHeadset(b1) ELSE b1
       IN  /\ builder' = b2
           /\ controllers' = Append(controllers,
                                Device(primary.ep_in, primary.ep_out, headset,
                                       Len(b1.functions)))
    /\ UNCHANGED <<controller_info_state, idle_msg_deadline, xinput, rumble, ep_out, pc,
                   xinput_data, wbuf, iter, rumble_seen, unread, burst, since_data,
                   snapshot, req, resp, info_writes>>

NextDescriptor == \E headset \in BOOLEAN : new_wireless(headset)

SpecDescriptor == Init /\ [][NextDescriptor]_vars

(***************************************************************************)
(* SerialNumberHandler on its own: control-IN requests of every kind       *)
(***************************************************************************)
ControlBufLen == 64

\* the handler the example installs
SERIAL_NUMBER_HANDLER == <<255, 255, 255, 255, 10, 137, 183>>

RequestTypes == {"Standard", "Class", "Vendor", "Reserved"}

Requests ==
    [request_type : RequestTypes, recipient : {"Device", "Interface"},
     request : 0..2, value : 0..2, index : 0..1,
     length : {0, 6, 7, 8, ControlBufLen}]

\* buf[..n].copy_from_slice(src); &buf[..n]
CopyPrefix(buf, src) ==
    SubSeq([i \in 1..Len(buf) |-> IF i <= Len(src) THEN src[i] ELSE buf[i]], 1, Len(src))

\* seeded fault: the requested length is not looked at
control_in_NoLength(self, r, buf) ==
    IF /\ r.request_type = "Vendor"
       /\ r.request = 1
       /\ r.value = 1
       /\ r.index = 0
    THEN <<[response |-> "Accepted", data |-> CopyPrefix(buf, self)]>>
    ELSE <<>>

\* SerialNumberHandler::control_in: Some(InResponse::Accepted(..)) or None
control_in(self, r, buf) ==
    IF /\ r.request_type = "Vendor"
       /\ r.request = 1
       /\ r.value = 1
       /\ r.index = 0
       /\ r.length >= Len(self)
    THEN <<[response |-> "Accepted", data |-> CopyPrefix(buf, self)]>>
    ELSE <<>>

\* the USB stack hands one control-IN request to the handler
ControlIn ==
    /\ \E r \in Requests :
         /\ req' = <<r>>
         /\ resp' = control_in(SERIAL_NUMBER_HANDLER, r, Zeros(ControlBufLen))
    /\ UNCHANGED <<controller_info_state, idle_msg_deadline, xinput, rumble, ep_out, pc,
                   xinput_data, wbuf, iter, rumble_seen, unread, burst, since_data,
                   snapshot, builder, controllers, info_writes>>

SpecControl == Init /\ [][ControlIn]_vars

(***************************************************************************)
(* The order of frames: a producer that moves the left stick one step      *)
(* further with every publication, so that every published frame differs   *)
(* from all the others                                                     *)
(***************************************************************************)
MaxPublished == 4                 \* how many frames the producer publishes

\* the number of frames published so far
Published == IF snapshot = <<>> THEN 0 ELSE snapshot[1].thumb_left_x

PublishOrdered ==
    /\ Published < MaxPublished
    /\ LET j == [XboxGamepadDefault EXCEPT !.thumb_left_x = Published + 1]
       IN  /\ snapshot' = <<j>>
           /\ send_xinput(ControllerData_from(j))
           /\ unread' = Logged(ControllerData_from(j))
    /\ UNCHANGED <<controller_info_state, idle_msg_deadline, rumble, ep_out, pc,
                   xinput_data, wbuf, iter, rumble_seen, burst, since_data,
                   builder, controllers, req, resp, info_writes>>

NextOrder ==
    \/ PublishOrdered
    \/ HostHandshake
    \/ HostOutErr
    \/ Tick
    \/ SelectFirst
    \/ StatusWriteDone
    \/ DataWriteDone
    \/ SelectSecond
    \/ IdleWriteDone
    \/ SelectThirdOk
    \/ ReplyWriteDone
    \/ SelectThirdErr
    \/ PauseDone

SpecOrder == Init /\ [][NextOrder]_vars

\* the engine task is scheduled, every write is answered, the pause ends
SpecOrderLive ==
    /\ SpecOrder
    /\ WF_vars(SelectFirst)
    /\ WF_vars(StatusWriteDone)
    /\ WF_vars(DataWriteDone)
    /\ WF_vars(IdleWriteDone)
    /\ WF_vars(ReplyWriteDone)
    /\ WF_vars(PauseDone)

TypeOK ==
    /\ controller_info_state \in ControllerInfoStates
    /\ idle_msg_deadline \in (0..IdleMs) \cup {InstantMAX}
    /\ Len(xinput) <= 1
    /\ rumble \in 0..65535
    /\ Len(ep_out) <= 1
    /\ pc \in {"select", "status_write", "data_write", "idle_write", "reply_write", "pause"}

(***************************************************************************)
(* Properties                                                              *)
(***************************************************************************)
\* the step in which the engine leaves select3 with one of its three results
EventStep ==
    /\ pc = "select"
    /\ \/ pc' # "select"
       \/ ep_out # <<>> /\ ep_out' = <<>>

\* the iteration described by iter has run to its end
IterDone == pc = "select"

WriteData(i) == iter.writes[i].data

\* C1: handshake trace.  A frame consumed while Disconnected makes the engine
\* write [0x08,0x80] first and the state becomes Unknown1 (AwaitingAck1); an Ack
\* handled in Unknown1 writes exactly the 29-byte controller-info packet
\* (beginning 00 0F 00 F0 F0 CC FF FF FF FF) and the state becomes Unknown2
\* (AwaitingAck2); an Ack handled in Unknown2 makes the state None (Paired) and
\* writes nothing.
C1_HandshakeTrace ==
    /\ (iter.ev = "frame" /\ iter.pre_state = "Disconnected" /\ IterDone)
          => /\ Len(iter.writes) >= 1
             /\ WriteData(1) = <<8, 128>>
             /\ controller_info_state = "Unknown1"
    /\ (iter.ev = "out" /\ iter.cmd.tag = "Ack" /\ iter.pre_state = "Unknown1" /\ IterDone)
          => /\ Len(iter.writes) = 1
             /\ Len(WriteData(1)) = 29
             /\ SubSeq(WriteData(1), 1, 10) = <<0, 15, 0, 240, 240, 204, 255, 255, 255, 255>>
             /\ controller_info_state = "Unknown2"
    /\ (iter.ev = "out" /\ iter.cmd.tag = "Ack" /\ iter.pre_state = "Unknown2")
          => /\ IterDone
             /\ iter.writes = <<>>
             /\ wbuf = <<>>
             /\ controller_info_state = "None"

\* the second Ack of the handshake has just been handled: the controller is paired
C1_Witness ==
    /\ iter.ev = "out" /\ iter.raw = <<0, 0, 0, 64, 0, 0, 0, 0, 0, 0, 0, 0>>
    /\ iter.pre_state = "Unknown2"
    /\ controller_info_state = "None"
    /\ IterDone

\* C2: a ConnectionStatusQuery handled while Disconnected writes exactly the
\* 2-byte message [0x08,0x08] and leaves the state Disconnected.
C2_StatusQueryDisconnected ==
    (iter.ev = "out" /\ iter.cmd.tag = "ConnectionStatus" /\ iter.pre_state = "Disconnected")
       => /\ controller_info_state = "Disconnected"
          /\ IF IterDone
             THEN Len(iter.writes) = 1 /\ WriteData(1) = <<8, 8>>
             ELSE pc = "reply_write" /\ iter.writes = <<>> /\ wbuf = <<8, 8>>

C2_Witness ==
    /\ iter.ev = "out" /\ iter.raw = <<8, 0, 15, 192, 0, 0, 0, 0, 0, 0, 0, 0>>
    /\ iter.pre_state = "Disconnected"
    /\ Len(iter.writes) = 1
    /\ IterDone

C3_StatusQueryConnectedInv ==
    (iter.ev = "out" /\ iter.cmd.tag = "ConnectionStatus" /\ iter.pre_state # "Disconnected")
       => /\ controller_info_state = "Unknown1"
          /\ IF IterDone
             THEN Len(iter.writes) = 1 /\ WriteData(1) = <<8, 128>>
             ELSE pc = "reply_write" /\ iter.writes = <<>> /\ wbuf = <<8, 128>>

C3_BothAcksAgain ==
    /\ (controller_info_state' = "None" /\ controller_info_state # "None")
          => (controller_info_state = "Unknown2" /\ iter'.cmd.tag = "Ack")
    /\ (controller_info_state' = "Unknown2" /\ controller_info_state # "Unknown2")
          => (controller_info_state = "Unknown1" /\ iter'.cmd.tag = "Ack")

\* C3: a ConnectionStatusQuery handled in Unknown1, Unknown2 or None writes
\* [0x08,0x80] and the state becomes Unknown1; the state None (Paired) is
\* entered only from Unknown2 and Unknown2 only from Unknown1, so a paired
\* controller needs both Acks again.
C3_StatusQueryConnected ==
    [] C3_StatusQueryConnectedInv /\ [][C3_BothAcksAgain]_vars

\* a paired controller has answered a status query and awaits the first Ack again
C3_Witness ==
    /\ iter.ev = "out" /\ iter.raw = <<8, 0, 15, 192, 0, 0, 0, 0, 0, 0, 0, 0>>
    /\ iter.pre_state = "None"
    /\ controller_info_state = "Unknown1"
    /\ Len(iter.writes) = 1
    /\ IterDone

C4_UnexpectedAckStep ==
    (EventStep /\ iter'.ev = "out" /\ iter'.cmd.tag = "Ack"
       /\ controller_info_state \in {"Disconnected", "None"})
       => /\ controller_info_state' = controller_info_state
          /\ rumble' = rumble
          /\ idle_msg_deadline' = idle_msg_deadline
          /\ iter'.writes = <<>>
          /\ wbuf' = <<>>
          /\ pc' = "select"

\* C4: an Ack handled while Disconnected or None (Paired) changes neither the
\* pairing state, the rumble register nor the idle deadline, writes no IN
\* message, and the engine is back at its select.
C4_UnexpectedAck == [][C4_UnexpectedAckStep]_vars

\* an Ack was ignored by a paired engine whose deadline is armed and whose
\* rumble register is set
C4_Witness ==
    /\ iter.ev = "out" /\ iter.cmd.tag = "Ack"
    /\ iter.pre_state = "None"
    /\ controller_info_state = "None"
    /\ idle_msg_deadline \in 1..IdleMs
    /\ rumble # 0
    /\ IterDone

\* the state the table of the pairing state machine gives for state s and event (ev, tag)
C5_Table(s, ev, tag) ==
    IF ev = "frame" /\ s = "Disconnected" THEN "Unknown1"
    ELSE IF ev = "out" /\ tag = "ConnectionStatus" /\ s # "Disconnected" THEN "Unknown1"
    ELSE IF ev = "out" /\ tag = "Ack" /\ s = "Unknown1" THEN "Unknown2"
    ELSE IF ev = "out" /\ tag = "Ack" /\ s = "Unknown2" THEN "None"
    ELSE s

C5_TransitionStep ==
    IF EventStep
    THEN controller_info_state' = C5_Table(controller_info_state, iter'.ev, iter'.cmd.tag)
    ELSE controller_info_state' = controller_info_state

\* C5: the pairing state changes only when a frame is consumed in Disconnected
\* (-> Unknown1), a ConnectionStatusQuery is handled outside Disconnected
\* (-> Unknown1), an Ack is handled in Unknown1 (-> Unknown2) or in Unknown2
\* (-> None); every other event, and every other step, leaves it unchanged.
C5_OnlyTheseTransitions == [][C5_TransitionStep]_vars

\* a paired engine has sent an idle message and is still paired
C5_Witness ==
    /\ iter.ev = "idle"
    /\ iter.pre_state = "None"
    /\ controller_info_state = "None"
    /\ Len(iter.writes) = 1
    /\ IterDone

C6_LedRumbleStep ==
    (EventStep /\ iter'.ev = "out" /\ iter'.cmd.tag \in {"Led", "Rumble"})
       => /\ controller_info_state' = controller_info_state
          /\ idle_msg_deadline' = idle_msg_deadline
          /\ iter'.writes = <<>>
          /\ pc' = "select"
          /\ UNCHANGED <<xinput, xinput_data, wbuf, rumble_seen>>
          /\ (iter'.cmd.tag = "Led" => rumble' = rumble)

\* C6: in every pairing state a Led or Rumble command leaves the pairing state
\* and the idle deadline unchanged and writes no IN message; Led changes
\* nothing, Rumble changes nothing but the rumble register.
C6_LedRumble == [][C6_LedRumbleStep]_vars

\* a Rumble command has replaced the register of an engine that waits for its
\* second Ack with the idle deadline armed
C6_Witness ==
    /\ iter.ev = "out" /\ iter.cmd.tag = "Rumble"
    /\ iter.pre_state = "Unknown2"
    /\ controller_info_state = "Unknown2"
    /\ rumble # iter.pre_rumble
    /\ idle_msg_deadline \in 1..IdleMs
    /\ IterDone

C7_UnrecognizedStep ==
    (EventStep /\ iter'.ev = "out" /\ iter'.cmd.tag = "Unknown")
       => /\ controller_info_state' = controller_info_state
          /\ rumble' = rumble
          /\ idle_msg_deadline' = idle_msg_deadline
          /\ iter'.writes = <<>>
          /\ wbuf' = <<>>
          /\ pc' = "select"

\* C7: in every pairing state an Unrecognized command changes neither the
\* pairing state, the rumble register nor the idle deadline, and no IN write
\* is attempted.
C7_Unrecognized == [][C7_UnrecognizedStep]_vars

\* a 13-byte payload was ignored by a paired engine whose deadline is armed
C7_Witness ==
    /\ iter.ev = "out" /\ iter.cmd.tag = "Unknown"
    /\ Len(iter.raw) = 13
    /\ iter.pre_state = "None"
    /\ controller_info_state = "None"
    /\ idle_msg_deadline \in 1..IdleMs
    /\ rumble # 0
    /\ IterDone

C8_IsLed(r) == SubSeq(r, 1, 3) = <<0, 0, 8>> /\ (r[4] \div 64) % 2 = 1

\* C8: from_raw always yields one of the five commands; for a payload of 12
\* bytes it yields ConnectionStatus for prefix 08 00 0F C0, Ack for prefix
\* 00 00 00 40, Rumble(b5, b6) for prefix 00 01 0F C0 00 b5 b6 and Unknown when
\* no pattern matches; for a payload of any other length it yields Unknown.
C8_Classify ==
    iter.ev = "out" =>
      LET r == iter.raw
          c == iter.cmd
      IN  /\ c.tag \in {"ConnectionStatus", "Ack", "Led", "Rumble", "Unknown"}
          /\ Len(r) # 12 => (c.tag = "Unknown" /\ c.data = r)
          /\ Len(r) = 12 =>
               /\ SubSeq(r, 1, 4) = <<8, 0, 15, 192>> => c.tag = "ConnectionStatus"
               /\ SubSeq(r, 1, 4) = <<0, 0, 0, 64>> => c.tag = "Ack"
               /\ SubSeq(r, 1, 5) = <<0, 1, 15, 192, 0>>
                     => (c.tag = "Rumble" /\ c.a = r[6] /\ c.b = r[7])
               /\ (/\ SubSeq(r, 1, 4) # <<8, 0, 15, 192>>
                   /\ SubSeq(r, 1, 4) # <<0, 0, 0, 64>>
                   /\ SubSeq(r, 1, 5) # <<0, 1, 15, 192, 0>>
                   /\ ~C8_IsLed(r))
                     => (c.tag = "Unknown" /\ c.data = r)

\* a 13-byte payload that begins like a status query was classified Unknown
C8_Witness ==
    /\ iter.ev = "out"
    /\ Len(iter.raw) = 13
    /\ SubSeq(iter.raw, 1, 4) = <<8, 0, 15, 192>>
    /\ iter.cmd.tag = "Unknown"

\* C9: for a 12-byte payload with prefix 00 00 08 L, from_raw yields
\* Led(L mod 16), an index in 0..15, when bit 0x40 of L is set, and Unknown
\* (neither Led nor Ack) when it is clear.
C9_Led ==
    (iter.ev = "out" /\ Len(iter.raw) = 12 /\ SubSeq(iter.raw, 1, 3) = <<0, 0, 8>>) =>
      LET L == iter.raw[4]
          c == iter.cmd
      IN  IF (L \div 64) % 2 = 1
          THEN c.tag = "Led" /\ c.a = L % 16 /\ c.a \in 0..15
          ELSE c.tag = "Unknown"

\* the led byte 0xFF was classified Led(15)
C9_Witness ==
    /\ iter.ev = "out"
    /\ iter.raw = <<0, 0, 8, 255, 0, 0, 0, 0, 0, 0, 0, 0>>
    /\ iter.cmd.tag = "Led"
    /\ iter.cmd.a = 15

C10_IsRumble(r) == Len(r) = 12 /\ SubSeq(r, 1, 5) = <<0, 1, 15, 192, 0>>

C10_RumbleStep ==
    /\ IF EventStep /\ iter'.ev = "out" /\ C10_IsRumble(iter'.raw)
       THEN State_rumble(rumble') = <<iter'.raw[6], iter'.raw[7]>>
       ELSE rumble' = rumble
    /\ rumble_seen' # rumble_seen
          => (rumble_seen' = State_rumble(rumble) /\ rumble' = rumble)

\* C10: the register reads (0, 0) at the start; handling the payload
\* 00 01 0F C0 00 strong weak makes it read (strong, weak); no other step
\* changes it, and a read by the producer returns the pair it holds and leaves
\* it as it is.
C10_Rumble ==
    /\ State_rumble(rumble) = <<0, 0>>
    /\ rumble_seen = <<0, 0>>
    /\ [][C10_RumbleStep]_vars

\* the producer has read the pair of the second of two Rumble commands
C10_Witness ==
    /\ iter.ev = "out"
    /\ iter.raw = <<0, 1, 15, 192, 0, 127, 16, 0, 0, 0, 0, 0>>
    /\ iter.pre_rumble # 0
    /\ rumble_seen = <<127, 16>>
    /\ State_rumble(rumble) = <<127, 16>>
    /\ IterDone

\* C11: the channel holds at most one frame, the one published last; a burst
\* of publications made before the engine takes a frame delivers only its last
\* frame to the engine, and that frame is the one embedded in the data message.
C11_LatestOnly ==
    /\ Len(xinput) <= 1
    /\ xinput = (IF unread = <<>> THEN <<>> ELSE <<unread[Len(unread)]>>)
    /\ pc \in {"status_write", "data_write"}
          => (burst # <<>> /\ xinput_data = burst[Len(burst)])
    /\ pc = "data_write" => SubSeq(wbuf, 7, 18) = burst[Len(burst)]

\* two different frames were published before the engine took one, and the
\* data message being written carries the second
C11_Witness ==
    /\ pc = "data_write"
    /\ Len(burst) = 2
    /\ burst[1] # burst[2]
    /\ SubSeq(wbuf, 7, 18) = burst[2]

C12_PublishStep ==
    (unread' # unread /\ unread' # <<>>)
       => /\ xinput' = <<unread'[Len(unread')]>>
          /\ UNCHANGED <<controller_info_state, idle_msg_deadline, rumble, ep_out, pc,
                         xinput_data, wbuf>>

\* C12: send_xinput can be called in every reachable state (the engine being
\* at its select, suspended in a write or in its pause, the slot being empty
\* or not), and it is one step that stores the frame and involves no step of
\* the engine.
C12_PublishNeverBlocks == [] ENABLED PublishLogged /\ [][C12_PublishStep]_vars

\* two frames were published while the engine was suspended in the write of a
\* data message, the second while the first was still unread
C12_Witness ==
    /\ pc = "data_write"
    /\ Len(unread) = 2
    /\ xinput = <<unread[2]>>

Bit(byte, k) == (byte \div (2 ^ k)) % 2 = 1

\* C13: the frame of every snapshot has 12 bytes; bits 0..7 of byte 0 are
\* dpad_up, dpad_down, dpad_left, dpad_right, start, back, left thumb, right
\* thumb; bits 0..7 of byte 1 are left shoulder, right shoulder, guide, 0, A,
\* B, X, Y.
C13_Buttons ==
    xinput # <<>> =>
      LET f == xinput[1]
          j == snapshot[1]
      IN  /\ Len(f) = 12
          /\ f[1] \in 0..255 /\ f[2] \in 0..255
          /\ Bit(f[1], 0) = j.dpad_up
          /\ Bit(f[1], 1) = j.dpad_down
          /\ Bit(f[1], 2) = j.dpad_left
          /\ Bit(f[1], 3) = j.dpad_right
          /\ Bit(f[1], 4) = j.btn_start
          /\ Bit(f[1], 5) = j.btn_back
          /\ Bit(f[1], 6) = j.btn_left_thumb
          /\ Bit(f[1], 7) = j.btn_right_thumb
          /\ Bit(f[2], 0) = j.btn_left_shoulder
          /\ Bit(f[2], 1) = j.btn_right_shoulder
          /\ Bit(f[2], 2) = j.btn_guide
          /\ ~Bit(f[2], 3)
          /\ Bit(f[2], 4) = j.btn_a
          /\ Bit(f[2], 5) = j.btn_b
          /\ Bit(f[2], 6) = j.btn_x
          /\ Bit(f[2], 7) = j.btn_y

\* a byte, and a little-endian pair of bytes, read as two's-complement numbers
S8(b) == IF b >= 128 THEN b - 256 ELSE b

S16(lo, hi) == IF lo + 256 * hi >= 32768 THEN lo + 256 * hi - 65536 ELSE lo + 256 * hi

\* C14: in the frame of every snapshot, byte 2 is the left trigger and byte 3
\* the right trigger as two's-complement bytes, and bytes 4-5, 6-7, 8-9, 10-11
\* are left X, left Y, right X, right Y as little-endian two's-complement
\* 16-bit values: each field is read back exactly from its own bytes.
C14_Analog ==
    xinput # <<>> =>
      LET f == xinput[1]
          j == snapshot[1]
      IN  /\ Len(f) = 12
          /\ \A i \in 3..12 : f[i] \in 0..255
          /\ S8(f[3]) = j.trigger_left
          /\ S8(f[4]) = j.trigger_right
          /\ S16(f[5], f[6]) = j.thumb_left_x
          /\ S16(f[7], f[8]) = j.thumb_left_y
          /\ S16(f[9], f[10]) = j.thumb_right_x
          /\ S16(f[11], f[12]) = j.thumb_right_y

\* a snapshot with the extreme values of both widths has been converted
C14_Witness ==
    /\ xinput # <<>>
    /\ snapshot[1].trigger_left = -128 /\ snapshot[1].trigger_right = 127
    /\ snapshot[1].thumb_left_x = -32768 /\ snapshot[1].thumb_left_y = 256
    /\ snapshot[1].thumb_right_x = -1 /\ snapshot[1].thumb_right_y = 32767
    /\ SubSeq(xinput[1], 3, 12) = <<128, 127, 0, 128, 0, 1, 255, 255, 255, 127>>

\* the last write of the iteration on record
LastWrite == iter.writes[Len(iter.writes)]

\* the idle deadline and the time since the last pad data write run together
C15_Inv ==
    /\ since_data \in {-1} \cup (0..IdleMs)
    /\ since_data = -1 <=> idle_msg_deadline = InstantMAX
    /\ since_data >= 0 => idle_msg_deadline = IdleMs - since_data
    /\ pc = "idle_write" =>
         /\ Len(wbuf) = 29
         /\ \A i \in 1..29 : wbuf[i] = (IF i = 4 THEN 240 ELSE 0)
         /\ iter.ev = "idle" /\ iter.writes = <<>>
    /\ (pc = "select" /\ since_data = IdleMs /\ xinput = <<>>) => ENABLED SelectSecond

C15_Step ==
    /\ (EventStep /\ iter'.ev = "idle") =>
         /\ since_data = IdleMs
         /\ xinput = <<>>
         /\ pc' = "idle_write"
    /\ (pc = "idle_write" /\ pc' # pc) =>
         /\ pc' = "select"
         /\ Len(iter'.writes) = 1
         /\ iter'.writes[1].data = wbuf
         /\ idle_msg_deadline' = InstantMAX
         /\ since_data' = -1

\* C15: a keep-alive is sent only when 11 time units have passed since a pad
\* data write with no frame pending, and then it is the next thing the engine
\* does; it is one 29-byte message, zero except byte 3 = 0xF0, after which the
\* deadline is "never"; so a second keep-alive needs a pad data write in
\* between, and none is sent before the first pad data write.
C15_IdleTiming == []C15_Inv /\ [][C15_Step]_vars

\* a keep-alive has been sent and the deadline is cleared
C15_Witness ==
    /\ IterDone /\ iter.ev = "idle"
    /\ Len(iter.writes) = 1 /\ LastWrite.data = IdleMsg
    /\ idle_msg_deadline = InstantMAX /\ since_data = -1

C16_Layout(m, frame) ==
    /\ Len(m) = 29
    /\ m[1] = 0 /\ m[2] = 1 /\ m[3] = 0 /\ m[4] = 240 /\ m[5] = 0 /\ m[6] = 19
    /\ Len(frame) = 12
    /\ \A i \in 1..12 : m[6 + i] = frame[i]
    /\ \A i \in 19..29 : m[i] = 0

C16_Inv == pc = "data_write" => C16_Layout(wbuf, xinput_data)

C16_Step ==
    /\ (EventStep /\ iter'.ev = "frame") => xinput_data' = xinput[1]
    /\ (pc = "status_write" /\ pc' # pc) => xinput_data' = xinput_data
    /\ (pc = "data_write" /\ pc' # pc) =>
         C16_Layout(iter'.writes[Len(iter'.writes)].data, xinput_data)

\* C16: every pad data message written is 29 bytes, 00 01 00 F0 00 13, then
\* the 12 bytes of the frame taken from the signal in this iteration, then 11
\* zero bytes.
C16_PadDataLayout == []C16_Inv /\ [][C16_Step]_vars

\* the frame of a snapshot with button A pressed has been written
C16_Witness ==
    /\ IterDone /\ iter.ev = "frame" /\ iter.writes # <<>>
    /\ LastWrite.data = <<0, 1, 0, 240, 0, 19, 0, 16, 127, 127, 0, 0, 0, 0, 0, 0, 0, 0,
                          0, 0, 0, 0, 0, 0, 0, 0, 0, 0, 0>>

\* the claim as first stated: a failed pad data write arms no deadline
C18_OnlyAfterSuccessStep ==
    (pc = "data_write" /\ pc' # pc /\ ~iter'.writes[Len(iter'.writes)].ok)
        => idle_msg_deadline' \in {InstantMAX, idle_msg_deadline}

C18_OnlyAfterSuccess == [][C18_OnlyAfterSuccessStep]_vars

C18_ArmStep ==
    /\ (pc = "data_write" /\ pc' # pc) => idle_msg_deadline' = IdleMs
    /\ idle_msg_deadline' \notin {InstantMAX, idle_msg_deadline, Elapse(idle_msg_deadline)}
         => (pc = "data_write" /\ pc' = "select")

\* C18: the idle deadline is either "never" or was armed when a pad data write
\* returned, whether that write succeeded or failed: a failed pad data write
\* arms the deadline 11 time units ahead exactly as a successful one does, and
\* nothing else arms it.
C18_ArmedAfterDataWrite ==
    [](idle_msg_deadline = InstantMAX \/ since_data >= 0) /\ [][C18_ArmStep]_vars

\* a pad data write has failed and the deadline is armed
C18_Witness ==
    /\ IterDone /\ iter.ev = "frame" /\ iter.writes # <<>>
    /\ ~LastWrite.ok
    /\ idle_msg_deadline = IdleMs

WritePositions == {"status_write", "data_write", "idle_write", "reply_write"}

LoopPositions == {"select", "pause"} \cup WritePositions

C17_Inv ==
    /\ pc \in LoopPositions
    /\ pc = "status_write" => ENABLED StatusWriteDone
    /\ pc = "data_write" => ENABLED DataWriteDone
    /\ pc = "idle_write" => ENABLED IdleWriteDone
    /\ pc = "reply_write" => ENABLED ReplyWriteDone
    /\ pc = "pause" => ENABLED PauseDone
    /\ (pc = "select" /\ (FrameReady \/ DeadlineReady \/ OutReady)) =>
         ENABLED (SelectFirst \/ SelectSecond \/ SelectThirdOk \/ SelectThirdErr)

\* a write that returns, with either result, is followed by the same next step
C17_Step ==
    /\ (pc = "status_write" /\ pc' # pc) => pc' = "data_write"
    /\ (pc \in WritePositions \ {"status_write"} /\ pc' # pc) => pc' = "select"
    /\ (pc = "pause" /\ pc' # pc) => pc' = "select"

\* C17: the engine is always at a position of its loop, every event that is
\* ready is taken, every write and the pause after a read error can return,
\* a failed write continues exactly where a successful one does, and from any
\* position the engine comes back to waiting on its three event sources.
C17_NeverStops ==
    /\ []C17_Inv
    /\ [][C17_Step]_vars
    /\ (pc # "select") ~> (pc = "select")

\* both writes of a frame iteration have failed and the engine waits again
C17_Witness ==
    /\ IterDone /\ iter.ev = "frame"
    /\ Len(iter.writes) = 2
    /\ ~iter.writes[1].ok /\ ~iter.writes[2].ok

\* the functions of the headset interface registered so far
SecondaryFunctions == { k \in 1..Len(builder.functions) : builder.functions[k].protocol = 130 }

\* C19: a function with protocol 0x82 (IN poll 2, OUT poll 4) follows the
\* primary function of a device exactly when the device was built with
\* headset = true, and the endpoints every device keeps are those of its
\* primary function (protocol 0x81, 32-byte packets, IN poll 1, OUT poll 8),
\* never those of a headset function.
C19_PrimaryEndpoints ==
    LET F == builder.functions
    IN  /\ \A i \in 1..Len(controllers) :
             LET c == controllers[i]
                 p == F[c.function]
                 followed == c.function < Len(F) /\ F[c.function + 1].protocol = 130
             IN  /\ p.protocol = 129
                 /\ p.ep_in.max_packet_size = 32 /\ p.ep_in.interval_ms = 1
                 /\ p.ep_in.dir = "in"
                 /\ p.ep_out.max_packet_size = 32 /\ p.ep_out.interval_ms = 8
                 /\ p.ep_out.dir = "out"
                 /\ c.ep_in = p.ep_in
                 /\ c.ep_out = p.ep_out
                 /\ c.headset <=> followed
                 /\ followed =>
                      /\ F[c.function + 1].ep_in.interval_ms = 2
                      /\ F[c.function + 1].ep_out.interval_ms = 4
                 /\ \A k \in SecondaryFunctions :
                      c.ep_in # F[k].ep_in /\ c.ep_out # F[k].ep_out
        /\ Cardinality(SecondaryFunctions)
             = Cardinality({ i \in 1..Len(controllers) : controllers[i].headset })
        /\ Len(F) = Len(controllers) + Cardinality(SecondaryFunctions)
        /\ \A k, l \in 1..Len(F) :
             k # l => (F[k].ep_in.addr # F[l].ep_in.addr /\ F[k].ep_out.addr # F[l].ep_out.addr)

\* a device with the headset function and one without have been built
C19_Witness ==
    /\ Len(controllers) = 2
    /\ controllers[1].headset /\ ~controllers[2].headset
    /\ Len(builder.functions) = 3
    /\ controllers[1].ep_in = Endpoint("in", 1, 32, 1)
    /\ controllers[2].ep_out = Endpoint("out", 3, 32, 8)

C20_Matches(r) ==
    r.request_type = "Vendor" /\ r.request = 1 /\ r.value = 1 /\ r.index = 0

C20_Serial == <<[response |-> "Accepted", data |-> <<255, 255, 255, 255, 10, 137, 183>>]>>

\* the claim as first stated: the length of the request plays no part
C20_SerialForEveryMatch ==
    req # <<>> => (IF C20_Matches(req[1]) THEN resp = C20_Serial ELSE resp = <<>>)

\* C20: a vendor control-IN request with request = 1, value = 1, index = 0
\* that asks for at least 7 bytes is answered with the fixed 7-byte serial
\* number; a request that differs in type, request, value or index, or that
\* asks for fewer than 7 bytes, is left unhandled.
C20_SerialNumber ==
    req # <<>> =>
      (IF C20_Matches(req[1]) /\ req[1].length >= 7
       THEN resp = C20_Serial
       ELSE resp = <<>>)

\* the serial number has been returned to a request for 64 bytes
C20_Witness ==
    /\ req # <<>> /\ C20_Matches(req[1]) /\ req[1].length = 64
    /\ resp = C20_Serial

C21_Inv ==
    /\ pc = "pause" => (iter.ev = "readerr" /\ iter.writes = <<>> /\ iter.cmd = NoOutData)
    /\ (pc = "select" /\ xinput # <<>>) => ENABLED SelectFirst
    /\ (pc = "select" /\ xinput = <<>> /\ idle_msg_deadline = 0) => ENABLED SelectSecond

C21_Step ==
    /\ (EventStep /\ iter'.ev = "readerr") =>
         /\ ep_out # <<>> /\ ~ep_out[1].ok
         /\ pc' = "pause"
         /\ iter'.writes = <<>> /\ iter'.cmd = NoOutData
         /\ UNCHANGED <<controller_info_state, rumble, idle_msg_deadline, wbuf, xinput>>
    /\ (EventStep /\ ep_out # <<>> /\ ep_out' = <<>> /\ ~ep_out[1].ok) => iter'.ev = "readerr"
    /\ pc = "pause" =>
         /\ UNCHANGED <<controller_info_state, rumble, wbuf>>
         /\ iter' = iter
         /\ xinput # <<>> => xinput' # <<>>
         /\ pc' \in {"pause", "select"}
         /\ idle_msg_deadline' = (IF pc' = "select" THEN Elapse(idle_msg_deadline)
                                                     ELSE idle_msg_deadline)

\* C21: a failed OUT read is not classified; the engine pauses one time unit
\* and is back at the head of the loop with pairing state and rumble register
\* as they were, no message written, and the idle deadline at the same
\* instant (one unit nearer, "never" still "never"); a frame published or a
\* deadline that elapsed during the pause is still pending, and is taken, when
\* the loop resumes.
C21_ReadError == []C21_Inv /\ [][C21_Step]_vars

\* after the pause a frame and an elapsed deadline, both new, are pending
C21_Witness ==
    /\ IterDone /\ iter.ev = "readerr"
    /\ xinput # <<>>
    /\ idle_msg_deadline = 0

C22_Inv ==
    /\ pc = "status_write" =>
         /\ iter.ev = "frame" /\ iter.pre_state = "Disconnected"
         /\ controller_info_state = "Unknown1"
         /\ wbuf = <<8, 128>>
         /\ iter.writes = <<>>
         /\ idle_msg_deadline = InstantMAX
    /\ (pc = "data_write" /\ iter.pre_state = "Disconnected") =>
         /\ iter.ev = "frame"
         /\ controller_info_state = "Unknown1"
         /\ Len(iter.writes) = 1 /\ iter.writes[1].data = <<8, 128>>
         /\ Len(wbuf) = 29 /\ wbuf[2] = 1 /\ SubSeq(wbuf, 7, 18) = xinput_data
         /\ idle_msg_deadline = InstantMAX

C22_Step ==
    /\ (EventStep /\ iter'.ev = "frame" /\ controller_info_state = "Disconnected") =>
         pc' = "status_write"
    /\ (pc = "status_write" /\ pc' # pc) => pc' = "data_write"
    /\ (pc = "data_write" /\ pc' # pc /\ iter.pre_state = "Disconnected") =>
         /\ pc' = "select"
         /\ Len(iter'.writes) = 2
         /\ iter'.writes[1].data = <<8, 128>>
         /\ iter'.writes[2].data = wbuf
         /\ controller_info_state' = "Unknown1"
         /\ idle_msg_deadline' = IdleMs
    /\ pc \in {"status_write", "data_write"} =>
         /\ iter'.ev = "frame" /\ iter'.raw = iter.raw /\ iter'.cmd = iter.cmd
         /\ ep_out # <<>> => ep_out' = ep_out
         /\ rumble' = rumble

\* C22: a frame taken while Disconnected is handled in one iteration, in this
\* order: the state becomes AwaitingAck1 (Unknown1) and [0x08,0x80] is written;
\* then the 29-byte pad data message is written, the deadline still "never";
\* then the deadline is armed 11 units ahead; no OUT transfer is taken and no
\* keep-alive is started between these steps.
C22_DisconnectedFrame == []C22_Inv /\ [][C22_Step]_vars

\* the whole sequence has run, both writes successful
C22_Witness ==
    /\ IterDone /\ iter.ev = "frame" /\ iter.pre_state = "Disconnected"
    /\ Len(iter.writes) = 2
    /\ iter.writes[1] = [data |-> <<8, 128>>, ok |-> TRUE]
    /\ iter.writes[2].ok /\ Len(iter.writes[2].data) = 29
    /\ controller_info_state = "Unknown1"
    /\ idle_msg_deadline = IdleMs

C23_Inv ==
    /\ iter.ev = "none" => controller_info_state = "Disconnected"
    /\ wbuf = <<8, 8>> =>
         /\ pc = "reply_write"
         /\ controller_info_state = "Disconnected"
         /\ iter.pre_state = "Disconnected"
         /\ iter.cmd.tag = "ConnectionStatus"
    /\ \A i \in 1..Len(iter.writes) :
         iter.writes[i].data = <<8, 8>> =>
            /\ controller_info_state = "Disconnected"
            /\ iter.pre_state = "Disconnected"
            /\ iter.cmd.tag = "ConnectionStatus"

C23_Step ==
    /\ controller_info_state # "Disconnected" => controller_info_state' # "Disconnected"
    /\ (controller_info_state = "Disconnected" /\ controller_info_state' # "Disconnected") =>
         (EventStep /\ iter'.ev = "frame" /\ controller_info_state' = "Unknown1")

\* C23: the pairing state is Disconnected until the first frame is taken;
\* from then on it is never Disconnected and [0x08,0x08] is never written,
\* whatever the host sends: Disconnected is assigned, and [0x08,0x08] written,
\* only in answer to a status query received while Disconnected.
C23_NoReturnToDisconnected == []C23_Inv /\ [][C23_Step]_vars

\* a status query has been answered while paired, and the state is AwaitingAck1
C23_Witness ==
    /\ IterDone /\ iter.ev = "out" /\ iter.cmd.tag = "ConnectionStatus"
    /\ iter.pre_state = "None"
    /\ controller_info_state = "Unknown1"
    /\ Len(iter.writes) = 1 /\ iter.writes[1].data = <<8, 128>>

\* a write returns with the given result
C24_WriteReturns(ok) ==
    /\ StatusWriteDone \/ DataWriteDone \/ IdleWriteDone \/ ReplyWriteDone
    /\ iter'.writes[Len(iter'.writes)].ok = ok

C24_Inv ==
    /\ pc \in WritePositions => (ENABLED C24_WriteReturns(TRUE) /\ ENABLED C24_WriteReturns(FALSE))
    /\ (pc = "status_write" /\ wbuf = <<8, 128>>) => controller_info_state = "Unknown1"
    /\ (pc = "reply_write" /\ wbuf = <<8, 128>>) => controller_info_state = "Unknown1"
    /\ (pc = "reply_write" /\ wbuf = controller_info) => controller_info_state = "Unknown2"

\* what the engine holds after a write is fixed by what it held before it
C24_Step ==
    (pc \in WritePositions /\ pc' # pc) =>
        /\ iter'.writes = Append(iter.writes,
                                 [data |-> wbuf, ok |-> iter'.writes[Len(iter'.writes)].ok])
        /\ controller_info_state' = controller_info_state
        /\ rumble' = rumble
        /\ pc' = (IF pc = "status_write" THEN "data_write" ELSE "select")
        /\ idle_msg_deadline' =
             (CASE pc = "data_write" -> IdleMs
                [] pc = "idle_write" -> InstantMAX
                [] OTHER -> idle_msg_deadline)
        /\ wbuf' = (IF pc = "status_write" THEN PadDataMsg(xinput_data) ELSE <<>>)

\* C24: every write can fail or succeed, and either way the engine goes on
\* with the same pairing state, deadline and position: after a failed
\* [0x08,0x80] write the state is AwaitingAck1 (Unknown1), after a failed
\* controller-info write it is AwaitingAck2 (Unknown2), after a failed
\* keep-alive write the deadline is "never".
C24_WriteResultIgnored == []C24_Inv /\ [][C24_Step]_vars

\* the controller-info write has failed and the state is AwaitingAck2
C24_Witness ==
    /\ IterDone /\ iter.ev = "out" /\ iter.cmd.tag = "Ack"
    /\ iter.pre_state = "Unknown1"
    /\ Len(iter.writes) = 1 /\ iter.writes[1] = [data |-> controller_info, ok |-> FALSE]
    /\ controller_info_state = "Unknown2"

\* a message of the pad data kind
IsPadData(m) == Len(m) = 29 /\ m[2] = 1 /\ m[6] = 19

\* the pad data writes attempted so far in the iteration on record
PadDataWrites == { i \in 1..Len(iter.writes) : IsPadData(iter.writes[i].data) }

C25_Inv ==
    iter.ev = "frame" =>
        /\ pc \in {"status_write", "data_write", "select"}
        /\ pc = "status_write" => (PadDataWrites = {} /\ iter.pre_state = "Disconnected")
        /\ pc = "data_write" => (PadDataWrites = {} /\ IsPadData(wbuf))
        /\ pc = "select" =>
             /\ Cardinality(PadDataWrites) = 1
             /\ Len(iter.writes) = (IF iter.pre_state = "Disconnected" THEN 2 ELSE 1)
             /\ IsPadData(LastWrite.data)

C25_Step ==
    (EventStep /\ iter'.ev = "frame") =>
        /\ xinput # <<>> /\ xinput' = <<>>
        /\ pc' = (IF controller_info_state = "Disconnected" THEN "status_write"
                                                           ELSE "data_write")
        /\ iter'.pre_state = controller_info_state

\* C25: in each of the four pairing states a frame that is taken leads, in
\* the same iteration, to exactly one pad data write attempt; in Unknown1
\* (AwaitingAck1) and Unknown2 (AwaitingAck2) as in None (Paired), with the
\* status write before it in Disconnected only.
C25_DataNotGated == []C25_Inv /\ [][C25_Step]_vars

\* a frame has been sent between the two Acks of the handshake
C25_Witness ==
    /\ IterDone /\ iter.ev = "frame"
    /\ iter.pre_state = "Unknown2" /\ controller_info_state = "Unknown2"
    /\ Len(iter.writes) = 1 /\ IsPadData(iter.writes[1].data)

\* the number the producer gave to a frame, read back from the frame
FrameNo(f) == S16(f[5], f[6])

\* the frame the producer published as its k-th
NthFrame(k) == <<0, 0, 127, 127, k % 256, k \div 256, 0, 0, 0, 0, 0, 0>>

\* frames that were published, in the order of their publication
InPublishedOrder(frames) ==
    /\ \A i \in 1..Len(frames) :
         /\ FrameNo(frames[i]) \in 1..Published
         /\ frames[i] = NthFrame(FrameNo(frames[i]))
    /\ \A i, k \in 1..Len(frames) : i < k => FrameNo(frames[i]) < FrameNo(frames[k])

C26_Inv ==
    /\ InPublishedOrder(burst \o unread)
    /\ unread # <<>> => FrameNo(unread[Len(unread)]) = Published
    /\ xinput = (IF unread = <<>> THEN <<>> ELSE <<unread[Len(unread)]>>)
    /\ pc \in {"status_write", "data_write"} =>
         (burst # <<>> /\ xinput_data = burst[Len(burst)])
    /\ \A i \in 1..Len(iter.writes) :
         IsPadData(iter.writes[i].data) =>
            (burst # <<>> /\ SubSeq(iter.writes[i].data, 7, 18) = burst[Len(burst)])

C26_Step ==
    /\ (EventStep /\ iter'.ev = "frame") =>
         /\ unread # <<>>
         /\ burst' = unread
         /\ unread' = <<>> /\ xinput' = <<>>
         /\ burst # <<>> => FrameNo(burst'[Len(burst')]) > FrameNo(burst[Len(burst)])
    /\ burst' # burst => (EventStep /\ iter'.ev = "frame")
    /\ (pc = "data_write" /\ pc' # pc) =>
         /\ IsPadData(wbuf)
         /\ SubSeq(wbuf, 7, 18) = burst[Len(burst)]
         /\ iter'.writes[Len(iter'.writes)].data = wbuf

\* C26: every frame written in a pad data message is the latest of the frames
\* published since the previous one was taken, so it was published, it is
\* later in the order of publication than every frame written before it, and
\* it is written in one message only; this holds when frames are published
\* while the engine is suspended in a write as well.
C26_SentInPublishedOrder == []C26_Inv /\ [][C26_Step]_vars

\* after an earlier frame, the 2nd was skipped, the 3rd written, the 4th is pending
C26_Witness ==
    /\ IterDone /\ iter.ev = "frame" /\ iter.pre_state # "Disconnected"
    /\ burst = <<NthFrame(2), NthFrame(3)>>
    /\ SubSeq(LastWrite.data, 7, 18) = NthFrame(3)
    /\ unread = <<NthFrame(4)>>

\* the k-th published frame is in the signal, not yet taken
C27_Pending(k) == Published = k /\ xinput = <<NthFrame(k)>>

\* the write of a pad data message with the k-th published frame has just returned
C27_WriteAttempted(k) ==
    /\ pc = "select" /\ iter.ev = "frame" /\ iter.writes # <<>>
    /\ IsPadData(LastWrite.data)
    /\ SubSeq(LastWrite.data, 7, 18) = NthFrame(k)

\* C27: when a frame has been published and no further frame is published,
\* the engine comes to the point where a pad data write embedding that frame
\* has been attempted, whatever OUT transfers, read errors and write failures
\* happen meanwhile, provided the engine is scheduled and writes and pauses end.
C27_Freshness ==
    \A k \in 1..MaxPublished :
        C27_Pending(k) ~> (Published > k \/ C27_WriteAttempted(k))

\* the last frame of the producer has been written, and the write failed
C27_Witness ==
    /\ Published = MaxPublished
    /\ C27_WriteAttempted(MaxPublished)
    /\ ~LastWrite.ok

C28_Inv ==
    /\ since_data >= 0 => idle_msg_deadline = IdleMs - since_data
    /\ since_data < 0 => idle_msg_deadline = InstantMAX
    /\ (pc = "select" /\ idle_msg_deadline = 0 /\ xinput = <<>>) =>
         ENABLED SelectSecond

C28_Step ==
    /\ (EventStep /\ iter'.ev \in {"out", "readerr"}) =>
         idle_msg_deadline' = idle_msg_deadline
    /\ (pc = "reply_write" /\ pc' # pc) => idle_msg_deadline' = idle_msg_deadline
    /\ (pc = "pause" /\ pc' # pc) => idle_msg_deadline' = Elapse(idle_msg_deadline)
    /\ idle_msg_deadline' \notin {idle_msg_deadline, Elapse(idle_msg_deadline)} =>
         /\ pc \in {"data_write", "idle_write"}
         /\ pc' = "select"

\* C28: taking an OUT transfer of any kind, replying to it, or pausing after
\* a read error leaves the idle deadline at the instant it was set to (only
\* the passing of time brings it nearer); it is set only when a pad data
\* write or a keep-alive write returns, so it elapses 11 units after the pad
\* data write, and once elapsed it is still there to be acted on.
C28_HostTrafficKeepsDeadline == []C28_Inv /\ [][C28_Step]_vars

\* the deadline has elapsed, on time, while a reply to the host was written
C28_Witness ==
    /\ IterDone /\ iter.ev = "out" /\ iter.writes # <<>>
    /\ idle_msg_deadline = 0 /\ since_data = IdleMs
    /\ ep_out # <<>>

C30_Inv ==
    /\ controller_info_state \in {"Disconnected", "Unknown1"} => info_writes = 0
    /\ controller_info_state \in {"Unknown2", "None"} => info_writes = 1
    /\ wbuf = controller_info =>
         /\ pc = "reply_write"
         /\ iter.cmd.tag = "Ack" /\ iter.pre_state = "Unknown1"
         /\ controller_info_state = "Unknown2"
    /\ \A i \in 1..Len(iter.writes) :
         iter.writes[i].data = controller_info =>
            (iter.cmd.tag = "Ack" /\ iter.pre_state = "Unknown1" /\ Len(iter.writes) = 1)

C30_Step ==
    /\ (controller_info_state' = "None" /\ controller_info_state # "None") =>
         /\ controller_info_state = "Unknown2"
         /\ info_writes = 1 /\ info_writes' = 1
         /\ wbuf' = wbuf /\ pc' = "select"
    /\ (wbuf' = controller_info /\ wbuf # controller_info) =>
         /\ controller_info_state = "Unknown1" /\ controller_info_state' = "Unknown2"
         /\ info_writes = 0 /\ info_writes' = 1
    /\ (wbuf' = <<8, 128>> /\ wbuf # <<8, 128>>) =>
         (info_writes' = 0 /\ controller_info_state' = "Unknown1")
    /\ info_writes' # info_writes =>
         (wbuf' # wbuf /\ wbuf' \in {<<8, 128>>, controller_info})

\* C30: when the state becomes Paired (None), exactly one controller-info
\* write has been started since the last [0x08,0x80] write was started; the
\* controller-info packet is written only in the step from AwaitingAck1
\* (Unknown1) to AwaitingAck2 (Unknown2), so at most once between two
\* [0x08,0x80] writes, and never when the state was Disconnected, Unknown2 or
\* None.
C30_OneInfoPerHandshake == []C30_Inv /\ [][C30_Step]_vars

\* the second Ack has been taken: the state is Paired and one controller-info
\* write is counted, while a keep-alive is due
C30_Witness ==
    /\ IterDone /\ iter.ev = "out" /\ iter.cmd.tag = "Ack"
    /\ iter.pre_state = "Unknown2" /\ controller_info_state = "None"
    /\ iter.writes = <<>>
    /\ info_writes = 1
    /\ idle_msg_deadline = 0

====
